---- MODULE Spec2Model ----
(***************************************************************************)
(* Model of the tensor codec of tch-rs:                                    *)
(*   src/wrappers/kind.rs   the element kinds, their tags and byte widths  *)
(*   src/wrappers/serde.rs  impl Serialize / Deserialize for Tensor        *)
(*                                                                         *)
(* A Tensor is [kind, size, data]: data is the flat, row-major sequence of *)
(* its elements, each element the bytes of its machine word as they lie in *)
(* memory (native byte order, see target_endian).  A map on the wire is    *)
(* [keys, kind, size, data]: the keys in the order the MapAccess yields    *)
(* them, and the value each of the three field names carries.              *)
(* An Option is a sequence: << >> is None, <<v>> is Some(v).               *)
(***************************************************************************)
EXTENDS Integers, Sequences, FiniteSets, TLC

VARIABLES
  target_endian,  \* byte order of the build target: "little" or "big"
  pc,             \* "idle" | "visit_map" | "panicked"
  tensor,         \* Option: the Tensor the caller holds
  wire,           \* Option: the map on the wire
  wireFrom,       \* Option: the Tensor `wire` was serialized from (history)
  tensorFrom,     \* Option: the map `tensor` was deserialized from (history)
  pos,            \* visit_map: index of the next key of the map
  kind,           \* visit_map: let mut kind = None
  size,           \* visit_map: let mut size = None
  data,           \* visit_map: let mut data = None
  ret,            \* outcome of the last call of serialize / deserialize
  reg             \* last call into the Kind registry

vars == <<target_endian, pc, tensor, wire, wireFrom, tensorFrom,
          pos, kind, size, data, ret, reg>>

---------------------------------------------------------------------------
\* Bounds of the model.

\* longest shape (number of dimensions) of a tensor handed to serialize
MaxRank == 3
\* largest extent of one dimension of such a tensor
MaxExtent == 3
\* most elements such a tensor holds
MaxNumel == 6
\* longest size of a map handed to deserialize
MaxWireRank == 2
\* largest extent in such a size (the smallest is -1)
MaxWireExtent == 2
\* longest key sequence of a map handed to deserialize
MaxKeys == 4
\* longest payload of a map handed to deserialize
MaxPayload == 9

---------------------------------------------------------------------------
\* Generic sequence helpers.

None == << >>

Some(v) == <<v>>

Reverse(s) == [i \in 1..Len(s) |-> s[Len(s) + 1 - i]]

Take(s, n) == SubSeq(s, 1, n)

RECURSIVE Flatten(_)
Flatten(ss) == IF ss = << >> THEN << >> ELSE Head(ss) \o Flatten(Tail(ss))

RECURSIVE SeqsUpTo(_, _)
SeqsUpTo(S, n) ==
  IF n = 0 THEN {<< >>}
  ELSE LET shorter == SeqsUpTo(S, n - 1)
       IN shorter \cup {Append(s, x) : s \in {t \in shorter : Len(t) = n - 1}, x \in S}

---------------------------------------------------------------------------
\* kind.rs: the element type registry.

Kinds ==
  {"Uint8", "Int8", "Int16", "Int", "Int64", "Half", "Float", "Double",
   "ComplexHalf", "ComplexFloat", "ComplexDouble", "Bool"}

c_int(self) ==
  CASE self = "Uint8" -> 0
    [] self = "Int8" -> 1
    [] self = "Int16" -> 2
    [] self = "Int" -> 3
    [] self = "Int64" -> 4
    [] self = "Half" -> 5
    [] self = "Float" -> 6
    [] self = "Double" -> 7
    [] self = "ComplexHalf" -> 8
    [] self = "ComplexFloat" -> 9
    [] self = "ComplexDouble" -> 10
    [] self = "Bool" -> 11

\* Faulty variant of of_c_int: the arms of 5 and 6 swapped.
of_c_int_HalfFloatSwapped(v) ==
  CASE v = 0 -> [status |-> "Ok", kind |-> "Uint8"]
    [] v = 1 -> [status |-> "Ok", kind |-> "Int8"]
    [] v = 2 -> [status |-> "Ok", kind |-> "Int16"]
    [] v = 3 -> [status |-> "Ok", kind |-> "Int"]
    [] v = 4 -> [status |-> "Ok", kind |-> "Int64"]
    [] v = 5 -> [status |-> "Ok", kind |-> "Float"]
    [] v = 6 -> [status |-> "Ok", kind |-> "Half"]
    [] v = 7 -> [status |-> "Ok", kind |-> "Double"]
    [] v = 8 -> [status |-> "Ok", kind |-> "ComplexHalf"]
    [] v = 9 -> [status |-> "Ok", kind |-> "ComplexFloat"]
    [] v = 10 -> [status |-> "Ok", kind |-> "ComplexDouble"]
    [] v = 11 -> [status |-> "Ok", kind |-> "Bool"]
    [] OTHER -> [status |-> "Panic", kind |-> ""]

\* A call returns [status, kind]: status "Ok" with the kind, or "Panic"
\* (the `_ => panic!("unexpected kind {}", v)` arm; kind is then "").
of_c_int(v) ==
  CASE v = 0 -> [status |-> "Ok", kind |-> "Uint8"]
    [] v = 1 -> [status |-> "Ok", kind |-> "Int8"]
    [] v = 2 -> [status |-> "Ok", kind |-> "Int16"]
    [] v = 3 -> [status |-> "Ok", kind |-> "Int"]
    [] v = 4 -> [status |-> "Ok", kind |-> "Int64"]
    [] v = 5 -> [status |-> "Ok", kind |-> "Half"]
    [] v = 6 -> [status |-> "Ok", kind |-> "Float"]
    [] v = 7 -> [status |-> "Ok", kind |-> "Double"]
    [] v = 8 -> [status |-> "Ok", kind |-> "ComplexHalf"]
    [] v = 9 -> [status |-> "Ok", kind |-> "ComplexFloat"]
    [] v = 10 -> [status |-> "Ok", kind |-> "ComplexDouble"]
    [] v = 11 -> [status |-> "Ok", kind |-> "Bool"]
    [] OTHER -> [status |-> "Panic", kind |-> ""]

\* Faulty variant of elt_size_in_bytes: Int given the width of Int16.
elt_size_in_bytes_IntAsInt16(self) ==
  CASE self = "Uint8" -> 1
    [] self = "Int8" -> 1
    [] self = "Int16" -> 2
    [] self = "Int" -> 2
    [] self = "Int64" -> 8
    [] self = "Half" -> 2
    [] self = "Float" -> 4
    [] self = "Double" -> 8
    [] self = "ComplexHalf" -> 4
    [] self = "ComplexFloat" -> 8
    [] self = "ComplexDouble" -> 16
    [] self = "Bool" -> 1

elt_size_in_bytes(self) ==
  CASE self = "Uint8" -> 1
    [] self = "Int8" -> 1
    [] self = "Int16" -> 2
    [] self = "Int" -> 4
    [] self = "Int64" -> 8
    [] self = "Half" -> 2
    [] self = "Float" -> 4
    [] self = "Double" -> 8
    [] self = "ComplexHalf" -> 4
    [] self = "ComplexFloat" -> 8
    [] self = "ComplexDouble" -> 16
    [] self = "Bool" -> 1

\* trait T: the kind of a tensor built from a slice of a Rust element type.
KIND(ty) ==
  CASE ty = "u8" -> "Uint8"
    [] ty = "i8" -> "Int8"
    [] ty = "i16" -> "Int16"
    [] ty = "i32" -> "Int"
    [] ty = "i64" -> "Int64"
    [] ty = "f32" -> "Float"
    [] ty = "f64" -> "Double"
    [] ty = "bool" -> "Bool"

---------------------------------------------------------------------------
\* Machine words.  An element of type $t is the size_of($t) bytes of its
\* word in memory order; the target's byte order decides which end holds
\* the most significant byte.  Rust's x.to_be_bytes() is
\* x.to_be().to_ne_bytes(): the bytes as they lie on a big-endian target,
\* swapped on a little-endian one; from_be_bytes is its inverse.

size_of(ty) ==
  CASE ty = "u8" -> 1
    [] ty = "i8" -> 1
    [] ty = "i16" -> 2
    [] ty = "i32" -> 4
    [] ty = "i64" -> 8
    [] ty = "f32" -> 4
    [] ty = "f64" -> 8
    [] ty = "bool" -> 1

\* Faulty variant of to_be_bytes: x.to_le_bytes().
to_le_bytes(x) == IF target_endian = "little" THEN x ELSE Reverse(x)

to_be_bytes(x) == IF target_endian = "big" THEN x ELSE Reverse(x)

\* Faulty variant of from_be_bytes: $t::from_le_bytes(bytes).
from_le_bytes(bytes) == IF target_endian = "little" THEN bytes ELSE Reverse(bytes)

from_be_bytes(bytes) == IF target_endian = "big" THEN bytes ELSE Reverse(bytes)

---------------------------------------------------------------------------
\* The tensor runtime (external to serde.rs): just what the codec calls.

RECURSIVE product(_)
product(sz) == IF sz = << >> THEN 1 ELSE Head(sz) * product(Tail(sz))

numel(t) == Len(t.data)

\* Tensor::of_slice(&xs): a fresh 1-D tensor of kind T::KIND.
of_slice(ty, xs) == [kind |-> KIND(ty), size |-> <<Len(xs)>>, data |-> xs]

\* self.view((n,)): the flat view, element order kept.
view(self, n) ==
  IF n = numel(self)
  THEN [status |-> "Ok", tensor |-> Some([self EXCEPT !.size = <<n>>])]
  ELSE [status |-> "Panic", tensor |-> None]

\* tensor.view_(&size): reshape in place; fails if an extent is negative or
\* the element count differs from the product of the extents.  The call
\* site uses the value as a Tensor (Ok(tensor)), so a failure can only
\* leave by a panic.
view_(self, sz) ==
  IF (\A i \in 1..Len(sz) : sz[i] >= 0) /\ product(sz) = numel(self)
  THEN [status |-> "Ok", tensor |-> Some([self EXCEPT !.size = sz])]
  ELSE [status |-> "Panic", tensor |-> None]

\* Vec<$t>::from(&tensor): the elements in order.  serialize only asks for
\* the element type of the tensor's own kind, so no conversion happens.
into_vec(ty, t) == t.data

---------------------------------------------------------------------------
\* serde.rs: to_bytes_num_impl!, from_bytes_num_impl!.

to_bytes(ty, t) ==
  LET xs == into_vec(ty, t)
  IN Flatten([i \in 1..Len(xs) |-> to_be_bytes(xs[i])])

\* <[u8]>::chunks(n): consecutive chunks of n, the last one maybe shorter.
RECURSIVE chunks(_, _)
chunks(bytes, n) ==
  IF bytes = << >> THEN << >>
  ELSE IF Len(bytes) <= n THEN <<bytes>>
  ELSE <<Take(bytes, n)>> \o chunks(SubSeq(bytes, n + 1, Len(bytes)), n)

\* The literal $n of each from_bytes_num_impl!($t, $n).
chunk_len(ty) ==
  CASE ty = "u8" -> 1
    [] ty = "i32" -> 4
    [] ty = "i64" -> 8
    [] ty = "f32" -> 4
    [] ty = "f64" -> 8

\* bytes.try_into().unwrap() panics on a chunk that is not $n long.
from_bytes(ty, bytes) ==
  LET cs == chunks(bytes, chunk_len(ty))
  IN IF \E i \in 1..Len(cs) : Len(cs[i]) # chunk_len(ty)
     THEN [status |-> "Panic", tensor |-> None]
     ELSE [status |-> "Ok",
           tensor |-> Some(of_slice(ty, [i \in 1..Len(cs) |-> from_be_bytes(cs[i])]))]

---------------------------------------------------------------------------
\* serde.rs: impl Serialize for Tensor.

FIELDS == <<"kind", "size", "data">>

\* serialize_map(Some(3)), three serialize_entry, end: the map as emitted.
emit(k, sz, bytes) ==
  [status |-> "Ok",
   map |-> Some([keys |-> FIELDS, kind |-> k, size |-> sz, data |-> bytes])]

serialize(self) ==
  LET k == self.kind
      sz == self.size
      n == product(sz)
      flat == view(self, n)
  IN IF flat.status # "Ok" THEN [status |-> "Panic", map |-> None]
     ELSE LET d == flat.tensor[1]
          IN CASE k = "Uint8" -> emit(k, sz, to_bytes("u8", d))
               [] k = "Int" -> emit(k, sz, to_bytes("i32", d))
               [] k = "Int64" -> emit(k, sz, to_bytes("i64", d))
               [] k = "Float" -> emit(k, sz, to_bytes("f32", d))
               [] k = "Double" -> emit(k, sz, to_bytes("f64", d))
               [] OTHER -> [status |-> "Panic", map |-> None]

---------------------------------------------------------------------------
\* serde.rs: impl Deserialize for Tensor.

\* FieldVisitor::visit_str.
visit_str(value) ==
  CASE value = "kind" -> [status |-> "Ok", field |-> "Kind"]
    [] value = "size" -> [status |-> "Ok", field |-> "Size"]
    [] value = "data" -> [status |-> "Ok", field |-> "Data"]
    [] OTHER -> [status |-> "Err", field |-> value]

Outcome(op, status, err, field) ==
  [op |-> op, status |-> status, err |-> err, field |-> field]

\* Faulty variant of next_key: the Size arm without its is_some() check.
next_key_SizeOverwritten(loc, m, i) ==
  LET key == visit_str(m.keys[i])
  IN IF key.status # "Ok"
     THEN [out |-> Outcome("deserialize", "Err", "unknown_field", key.field), loc |-> loc]
     ELSE CASE key.field = "Kind" ->
                 IF loc.kind # None
                 THEN [out |-> Outcome("deserialize", "Err", "duplicate_field", "kind"),
                       loc |-> loc]
                 ELSE [out |-> Outcome("deserialize", "Ok", "", ""),
                       loc |-> [loc EXCEPT !.kind = Some(m.kind)]]
            [] key.field = "Size" ->
                 [out |-> Outcome("deserialize", "Ok", "", ""),
                  loc |-> [loc EXCEPT !.size = Some(m.size)]]
            [] key.field = "Data" ->
                 IF loc.data # None
                 THEN [out |-> Outcome("deserialize", "Err", "duplicate_field", "data"),
                       loc |-> loc]
                 ELSE [out |-> Outcome("deserialize", "Ok", "", ""),
                       loc |-> [loc EXCEPT !.data = Some(m.data)]]

\* One turn of `while let Some(key) = map.next_key()?` on entry i of map m,
\* the locals being loc = [kind, size, data].
next_key(loc, m, i) ==
  LET key == visit_str(m.keys[i])
  IN IF key.status # "Ok"
     THEN [out |-> Outcome("deserialize", "Err", "unknown_field", key.field), loc |-> loc]
     ELSE CASE key.field = "Kind" ->
                 IF loc.kind # None
                 THEN [out |-> Outcome("deserialize", "Err", "duplicate_field", "kind"),
                       loc |-> loc]
                 ELSE [out |-> Outcome("deserialize", "Ok", "", ""),
                       loc |-> [loc EXCEPT !.kind = Some(m.kind)]]
            [] key.field = "Size" ->
                 IF loc.size # None
                 THEN [out |-> Outcome("deserialize", "Err", "duplicate_field", "size"),
                       loc |-> loc]
                 ELSE [out |-> Outcome("deserialize", "Ok", "", ""),
                       loc |-> [loc EXCEPT !.size = Some(m.size)]]
            [] key.field = "Data" ->
                 IF loc.data # None
                 THEN [out |-> Outcome("deserialize", "Err", "duplicate_field", "data"),
                       loc |-> loc]
                 ELSE [out |-> Outcome("deserialize", "Ok", "", ""),
                       loc |-> [loc EXCEPT !.data = Some(m.data)]]

\* Faulty variant of dispatch_from_bytes: the Int arm calls i64::from_bytes.
dispatch_from_bytes_IntAsI64(k, bytes) ==
  CASE k = "Uint8" -> from_bytes("u8", bytes)
    [] k = "Int" -> from_bytes("i64", bytes)
    [] k = "Int64" -> from_bytes("i64", bytes)
    [] k = "Float" -> from_bytes("f32", bytes)
    [] k = "Double" -> from_bytes("f64", bytes)
    [] OTHER -> [status |-> "Unimplemented", tensor |-> None]

\* `match kind { ... }` of visit_map: the typed decoder of each kind.
dispatch_from_bytes(k, bytes) ==
  CASE k = "Uint8" -> from_bytes("u8", bytes)
    [] k = "Int" -> from_bytes("i32", bytes)
    [] k = "Int64" -> from_bytes("i64", bytes)
    [] k = "Float" -> from_bytes("f32", bytes)
    [] k = "Double" -> from_bytes("f64", bytes)
    [] OTHER -> [status |-> "Unimplemented", tensor |-> None]

\* visit_map once next_key() has returned None: the three ok_or_else
\* checks, the dispatch on the kind, and view_.
map_end(loc) ==
  IF loc.kind = None
  THEN [out |-> Outcome("deserialize", "Err", "missing_field", "kind"), tensor |-> None]
  ELSE IF loc.size = None
  THEN [out |-> Outcome("deserialize", "Err", "missing_field", "size"), tensor |-> None]
  ELSE IF loc.data = None
  THEN [out |-> Outcome("deserialize", "Err", "missing_field", "data"), tensor |-> None]
  ELSE LET flat == dispatch_from_bytes(loc.kind[1], loc.data[1])
       IN IF flat.status = "Unimplemented"
          THEN [out |-> Outcome("deserialize", "Panic", "unimplemented", "kind"),
                tensor |-> None]
          ELSE IF flat.status = "Panic"
          THEN [out |-> Outcome("deserialize", "Panic", "unwrap", "data"),
                tensor |-> None]
          ELSE LET shaped == view_(flat.tensor[1], loc.size[1])
               IN IF shaped.status # "Ok"
                  THEN [out |-> Outcome("deserialize", "Panic", "view_", "size"),
                        tensor |-> None]
                  ELSE [out |-> Outcome("deserialize", "Ok", "", ""),
                        tensor |-> shaped.tensor]

---------------------------------------------------------------------------
\* The inputs the callers hand in.

\* The payload of tests::floating_point_tensor: the big-endian f64 words of
\* 1.432, 0., 432.43, 3e12, 3.1e-3, 7.9987.
TestData ==
  <<63, 246, 233, 120, 212, 253, 243, 182, 0, 0, 0, 0, 0, 0, 0, 0,
    64, 123, 6, 225, 71, 174, 20, 123, 66, 133, 211, 239, 121, 128, 0, 0,
    63, 105, 101, 43, 211, 195, 97, 19, 64, 31, 254, 171, 54, 122, 15, 145>>

\* 00 .. 00 2a repeated: the value 42 as big-endian i64 words.
AnswerData == [i \in 1..Len(TestData) |-> IF i % 8 = 0 THEN 42 ELSE 0]

\* ff .. ff fe repeated: the value -2 as big-endian i64 words.
MinusData == [i \in 1..Len(TestData) |-> IF i % 8 = 0 THEN 254 ELSE 255]

ByteStreams == {TestData, AnswerData, MinusData}

\* The first n bytes of stream s, taken round and round.
Cycle(s, n) == [i \in 1..n |-> s[((i - 1) % Len(s)) + 1]]

\* The machine word of a value written most significant byte first.
Native(be) == IF target_endian = "big" THEN be ELSE Reverse(be)

\* n words of w bytes: the values stream s spells most significant byte first.
WordsFrom(s, w, n) ==
  LET bytes == Cycle(s, n * w)
  IN [i \in 1..n |-> Native(SubSeq(bytes, (i - 1) * w + 1, i * w))]

RustTypes == {"u8", "i8", "i16", "i32", "i64", "f32", "f64", "bool"}

\* The width a tensor of kind k stores its elements at: that of its Rust
\* element type or, for the kinds no Rust type stands for, the registry's.
WidthOfKind(k) ==
  IF \E ty \in RustTypes : KIND(ty) = k
  THEN size_of(CHOOSE ty \in RustTypes : KIND(ty) = k)
  ELSE elt_size_in_bytes(k)

Shapes == {s \in SeqsUpTo(0..MaxExtent, MaxRank) : product(s) <= MaxNumel}

Tensors ==
  {[kind |-> k, size |-> s, data |-> WordsFrom(b, WidthOfKind(k), product(s))] :
     k \in Kinds, s \in Shapes, b \in ByteStreams}

MapOf(ks, r) == [keys |-> ks, kind |-> r.kind, size |-> r.size, data |-> r.data]

RecordOf(m) == [kind |-> m.kind, size |-> m.size, data |-> m.data]

WireSizes == SeqsUpTo((-1)..MaxWireExtent, MaxWireRank)

WirePayloads == {Take(s, n) : s \in ByteStreams, n \in 0..MaxPayload}

WireRecords == [kind : Kinds, size : WireSizes, data : WirePayloads]

KeySeqs == SeqsUpTo({"kind", "size", "data", "bogus"}, MaxKeys)

\* Records sent under every key sequence: the one of the test, one of an
\* unsupported kind, one with a short last chunk, one of the wrong shape.
SampleRecords ==
  {[kind |-> "Double", size |-> <<1, 3, 2>>, data |-> TestData],
   [kind |-> "Int16", size |-> <<1>>, data |-> Take(TestData, 2)],
   [kind |-> "Int", size |-> <<1>>, data |-> Take(TestData, 5)],
   [kind |-> "Float", size |-> <<3>>, data |-> Take(TestData, 8)]}

WireMaps ==
  {MapOf(FIELDS, r) : r \in WireRecords}
    \cup {MapOf(ks, r) : ks \in KeySeqs, r \in SampleRecords}

TagInputs == ((-1)..12) \cup {255}

---------------------------------------------------------------------------
\* The state machine.

NoCall == Outcome("", "", "", "")

NoReg == [fn |-> "", tag |-> 0, kind |-> "", status |-> ""]

Init ==
  /\ target_endian \in {"little", "big"}
  /\ pc = "idle"
  /\ tensor = None
  /\ wire = None
  /\ wireFrom = None
  /\ tensorFrom = None
  /\ pos = 0
  /\ kind = None
  /\ size = None
  /\ data = None
  /\ ret = NoCall
  /\ reg = NoReg

\* Nothing has been handed to the process yet.
Fresh ==
  /\ pc = "idle"
  /\ tensor = None
  /\ wire = None
  /\ ret = NoCall
  /\ reg = NoReg

\* The caller builds a tensor.
NewTensor ==
  /\ Fresh
  /\ \E t \in Tensors : tensor' = Some(t)
  /\ UNCHANGED <<target_endian, pc, wire, wireFrom, tensorFrom,
                 pos, kind, size, data, ret, reg>>

\* A map arrives from outside.
Receive ==
  /\ Fresh
  /\ \E m \in WireMaps : wire' = Some(m)
  /\ UNCHANGED <<target_endian, pc, tensor, wireFrom, tensorFrom,
                 pos, kind, size, data, ret, reg>>

\* Tensor::serialize on the tensor the caller holds.
Serialize ==
  /\ pc = "idle"
  /\ tensor # None
  /\ LET r == serialize(tensor[1])
     IN IF r.status = "Ok"
        THEN /\ wire' = r.map
             /\ wireFrom' = tensor
             /\ ret' = Outcome("serialize", "Ok", "", "")
             /\ pc' = "idle"
        ELSE /\ wire' = None
             /\ wireFrom' = None
             /\ ret' = Outcome("serialize", "Panic", "unimplemented", "kind")
             /\ pc' = "panicked"
  /\ UNCHANGED <<target_endian, tensor, tensorFrom, pos, kind, size, data, reg>>

\* Tensor::deserialize: visit_map starts on the map on the wire.
Deserialize ==
  /\ pc = "idle"
  /\ wire # None
  /\ pc' = "visit_map"
  /\ pos' = 1
  /\ kind' = None
  /\ size' = None
  /\ data' = None
  /\ tensor' = None
  /\ tensorFrom' = None
  /\ ret' = NoCall
  /\ UNCHANGED <<target_endian, wire, wireFrom, reg>>

\* visit_map takes the next key of the map and its value.
NextKey ==
  /\ pc = "visit_map"
  /\ pos <= Len(wire[1].keys)
  /\ LET r == next_key([kind |-> kind, size |-> size, data |-> data], wire[1], pos)
     IN IF r.out.status = "Ok"
        THEN /\ kind' = r.loc.kind
             /\ size' = r.loc.size
             /\ data' = r.loc.data
             /\ pos' = pos + 1
             /\ UNCHANGED <<pc, ret>>
        ELSE /\ ret' = r.out
             /\ pc' = "idle"
             /\ pos' = 0
             /\ kind' = None
             /\ size' = None
             /\ data' = None
  /\ UNCHANGED <<target_endian, tensor, wire, wireFrom, tensorFrom, reg>>

\* The map has no more keys: visit_map checks, decodes and returns.
MapEnd ==
  /\ pc = "visit_map"
  /\ pos > Len(wire[1].keys)
  /\ LET r == map_end([kind |-> kind, size |-> size, data |-> data])
     IN /\ ret' = r.out
        /\ tensor' = r.tensor
        /\ tensorFrom' = IF r.out.status = "Ok" THEN wire ELSE None
        /\ pc' = IF r.out.status = "Panic" THEN "panicked" ELSE "idle"
  /\ pos' = 0
  /\ kind' = None
  /\ size' = None
  /\ data' = None
  /\ UNCHANGED <<target_endian, wire, wireFrom, reg>>

\* Kind::c_int.
CallCInt ==
  /\ Fresh
  /\ \E k \in Kinds :
       reg' = [fn |-> "c_int", tag |-> c_int(k), kind |-> k, status |-> "Ok"]
  /\ UNCHANGED <<target_endian, pc, tensor, wire, wireFrom, tensorFrom,
                 pos, kind, size, data, ret>>

\* Kind::of_c_int.
CallOfCInt ==
  /\ Fresh
  /\ \E v \in TagInputs :
       LET r == of_c_int(v)
       IN /\ reg' = [fn |-> "of_c_int", tag |-> v, kind |-> r.kind, status |-> r.status]
          /\ pc' = IF r.status = "Panic" THEN "panicked" ELSE "idle"
  /\ UNCHANGED <<target_endian, tensor, wire, wireFrom, tensorFrom,
                 pos, kind, size, data, ret>>

Next ==
  \/ NewTensor
  \/ Receive
  \/ Serialize
  \/ Deserialize
  \/ NextKey
  \/ MapEnd
  \/ CallCInt
  \/ CallOfCInt

Spec == Init /\ [][Next]_vars

---------------------------------------------------------------------------
\* What the properties below speak of.

\* The kinds the codec has a typed encoder and decoder for.
Supported == {"Uint8", "Int", "Int64", "Float", "Double"}

FieldNames == {"kind", "size", "data"}

Serialized == ret.op = "serialize" /\ ret.status = "Ok"

\* A call of deserialize has ended (by Ok, Err or a panic).
Deserialized == ret.op = "deserialize"

IsPermutation(ks) == Len(ks) = 3 /\ {ks[i] : i \in 1..Len(ks)} = FieldNames

\* The first key that is no field name or repeats an earlier key, if any.
Offending(ks) ==
  {i \in 1..Len(ks) : ks[i] \notin FieldNames \/ \E j \in 1..(i - 1) : ks[j] = ks[i]}

FirstOffending(ks) == CHOOSE i \in Offending(ks) : \A j \in Offending(ks) : i <= j

Absent(ks) == {f \in FieldNames : \A i \in 1..Len(ks) : ks[i] # f}

\* The error a key sequence that is no permutation of the field names ends in.
ExpectedFieldError(ks) ==
  IF Offending(ks) # {}
  THEN LET key == ks[FirstOffending(ks)]
       IN IF key \in FieldNames THEN <<"duplicate_field", key>>
          ELSE <<"unknown_field", key>>
  ELSE <<"missing_field",
         FIELDS[CHOOSE i \in 1..3 :
                  FIELDS[i] \in Absent(ks) /\ \A j \in 1..(i - 1) : FIELDS[j] \notin Absent(ks)]>>

\* Byte m (0 the least significant) of the value of machine word x.
ByteOfWord(x, m) == IF target_endian = "big" THEN x[Len(x) - m] ELSE x[m + 1]

\* The upper bytes of word x only extend its sign, so that its value is an
\* integer of at most 32 bits.
FitsInt(x, signed) ==
  LET w == Len(x)
  IN \/ w <= 3
     \/ w = 4 /\ (signed \/ ByteOfWord(x, 3) < 128)
     \/ /\ w > 4
        /\ \/ /\ \A m \in 4..(w - 1) : ByteOfWord(x, m) = 0
              /\ ByteOfWord(x, 3) < 128
           \/ /\ signed
              /\ \A m \in 4..(w - 1) : ByteOfWord(x, m) = 255
              /\ ByteOfWord(x, 3) >= 128

\* The value of word x: two's complement if signed, else unsigned.
RECURSIVE ValueFrom(_, _, _)
ValueFrom(x, m, acc) ==
  IF m < 0 THEN acc ELSE ValueFrom(x, m - 1, acc * 256 + ByteOfWord(x, m))

IntValue(x, signed) ==
  LET top == ByteOfWord(x, Len(x) - 1)
  IN ValueFrom(x, Len(x) - 2, IF signed /\ top >= 128 THEN top - 256 ELSE top)

\* Bits 8*m .. 8*m+7 of the two's-complement form of the integer v.
RECURSIVE BitsOfValue(_, _)
BitsOfValue(v, m) == IF m = 0 THEN v % 256 ELSE BitsOfValue(v \div 256, m - 1)

IsSigned(k) == k # "Uint8"

---------------------------------------------------------------------------
\* C1: round trip.  Serializing a tensor of a supported kind succeeds, and
\* deserializing the map serialize produced ends in Ok with a tensor of the
\* same kind, the same shape and the same elements in the same order.
C1_RoundTrip ==
  /\ (ret.op = "serialize" /\ tensor[1].kind \in Supported) => ret.status = "Ok"
  /\ (Deserialized /\ wireFrom # None) =>
       /\ ret.status = "Ok"
       /\ tensor # None
       /\ tensor[1].kind = wireFrom[1].kind
       /\ tensor[1].size = wireFrom[1].size
       /\ tensor[1].data = wireFrom[1].data

\* The 1 x 3 x 2 Double tensor of the test has gone through serialize, which
\* gave the 48 bytes of the test, and deserialize.
C1_Witness ==
  /\ Deserialized
  /\ ret.status = "Ok"
  /\ wireFrom # None
  /\ wireFrom[1].kind = "Double"
  /\ wireFrom[1].size = <<1, 3, 2>>
  /\ wire[1].data = TestData
  /\ tensor = wireFrom

\* C2: payload length.  The map serialize produces carries the tensor's
\* kind and shape unchanged and a payload of product(shape) times
\* elt_size_in_bytes(kind) bytes: one element for the empty shape, none for
\* a shape with a zero extent.
C2_PayloadLength ==
  Serialized =>
    /\ wire # None
    /\ wire[1].kind = tensor[1].kind
    /\ wire[1].size = tensor[1].size
    /\ Len(wire[1].data) = product(tensor[1].size) * elt_size_in_bytes(tensor[1].kind)
    /\ tensor[1].size = << >> => Len(wire[1].data) = elt_size_in_bytes(tensor[1].kind)
    /\ (\E i \in 1..Len(tensor[1].size) : tensor[1].size[i] = 0) => wire[1].data = << >>

\* A scalar Int tensor has been serialized into four bytes.
C2_Witness ==
  /\ Serialized
  /\ tensor[1].kind = "Int"
  /\ tensor[1].size = << >>
  /\ Len(wire[1].data) = 4

\* C3: every kind outside the supported five makes serialize, and
\* deserialize of a well-formed map declaring it, return an UnsupportedKind
\* error to the caller: no panic, no payload, no tensor.
C3_UnsupportedKindIsError ==
  /\ (ret.op = "serialize" /\ tensor[1].kind \notin Supported) =>
       ret.status = "Err" /\ ret.err = "UnsupportedKind" /\ wire = None
  /\ (Deserialized /\ IsPermutation(wire[1].keys) /\ wire[1].kind \notin Supported) =>
       ret.status = "Err" /\ ret.err = "UnsupportedKind" /\ tensor = None

\* C4: a well-formed map of a supported kind whose payload length is no
\* multiple of the kind's byte width makes deserialize return a
\* TruncatedPayload error to the caller.
C4_TruncatedPayloadIsError ==
  (/\ Deserialized
   /\ IsPermutation(wire[1].keys)
   /\ wire[1].kind \in Supported
   /\ Len(wire[1].data) % elt_size_in_bytes(wire[1].kind) # 0) =>
    ret.status = "Err" /\ ret.err = "TruncatedPayload" /\ tensor = None

\* C5: field validation.  deserialize gets to the dispatch on the kind (it
\* ends in something other than a field error) exactly when the keys are a
\* permutation of kind, size, data; otherwise it returns, with no tensor,
\* the error of the first offending key (duplicate_field of a repeated
\* field, unknown_field of any other key) or, if no key offends,
\* missing_field of the first absent field.
C5_FieldValidation ==
  Deserialized =>
    /\ ret.status # "Err" <=> IsPermutation(wire[1].keys)
    /\ ret.status = "Err" =>
         /\ <<ret.err, ret.field>> = ExpectedFieldError(wire[1].keys)
         /\ tensor = None

\* A map with a second size key has been refused as a duplicate field.
C5_Witness ==
  /\ Deserialized
  /\ wire[1].keys = <<"kind", "size", "size", "data">>
  /\ ret.status = "Err"
  /\ ret.err = "duplicate_field"
  /\ ret.field = "size"

\* C6: a well-formed map of a supported kind whose payload decodes to n
\* elements and whose declared size has another product than n (a negative
\* extent included) makes deserialize return a ShapeMismatch error.
C6_ShapeMismatchIsError ==
  (/\ Deserialized
   /\ IsPermutation(wire[1].keys)
   /\ wire[1].kind \in Supported
   /\ Len(wire[1].data) % elt_size_in_bytes(wire[1].kind) = 0
   /\ product(wire[1].size) # Len(wire[1].data) \div elt_size_in_bytes(wire[1].kind)) =>
    ret.status = "Err" /\ ret.err = "ShapeMismatch" /\ tensor = None

\* C7: of_c_int of a tag outside 0..11 fails with an UnknownKind error the
\* caller can recover from: no panic, no kind.
C7_UnknownTagIsError ==
  (reg.fn = "of_c_int" /\ reg.tag \notin 0..11) =>
    reg.status = "Err" /\ reg.kind = "" /\ pc # "panicked"

\* C8: tag bijection.  c_int(of_c_int(tag)) = tag for every tag in 0..11,
\* of_c_int(c_int(kind)) = kind for each of the twelve kinds, and the twelve
\* tags are pairwise distinct and are exactly 0..11.
C8_TagBijection ==
  /\ (reg.fn = "of_c_int" /\ reg.tag \in 0..11) =>
       reg.status = "Ok" /\ reg.kind \in Kinds /\ c_int(reg.kind) = reg.tag
  /\ reg.fn = "c_int" =>
       /\ reg.tag \in 0..11
       /\ of_c_int(reg.tag) = [status |-> "Ok", kind |-> reg.kind]
       /\ \A k \in Kinds \ {reg.kind} : c_int(k) # reg.tag
  /\ reg.fn # "" => {c_int(k) : k \in Kinds} = 0..11

\* of_c_int(11) has returned Bool.
C8_Witness == reg.fn = "of_c_int" /\ reg.tag = 11 /\ reg.kind = "Bool" /\ reg.status = "Ok"

\* C9: big-endian layout.  For a tensor of kind Uint8, Int or Int64 with
\* byte width w, byte j of element i lies at payload offset i*w + j and is
\* bits 8*(w-1-j) .. 8*(w-1-j)+7 of the element's value, most significant
\* byte first, nothing in between.
C9_BigEndianLayout ==
  (Serialized /\ tensor[1].kind \in {"Uint8", "Int", "Int64"}) =>
    LET t == tensor[1]
        w == elt_size_in_bytes(t.kind)
        payload == wire[1].data
    IN /\ Len(payload) = Len(t.data) * w
       /\ \A i \in 0..(Len(t.data) - 1) : \A j \in 0..(w - 1) :
            LET x == t.data[i + 1]
            IN /\ payload[i * w + j + 1] = ByteOfWord(x, w - 1 - j)
               /\ FitsInt(x, IsSigned(t.kind)) =>
                    payload[i * w + j + 1]
                      = BitsOfValue(IntValue(x, IsSigned(t.kind)), w - 1 - j)

\* The scalar Int64 tensor of value 42 has been serialized as size [] and
\* payload 00 00 00 00 00 00 00 2a.
C9_Witness ==
  /\ Serialized
  /\ tensor[1].kind = "Int64"
  /\ tensor[1].size = << >>
  /\ IntValue(tensor[1].data[1], TRUE) = 42
  /\ wire[1].size = << >>
  /\ wire[1].data = <<0, 0, 0, 0, 0, 0, 0, 42>>

====
